---- MODULE Spec2Model ----
(***************************************************************************)
(* FRIDAY book recommender (src/app.py): the start-up pipeline             *)
(*   load_data -> prepare_data -> create_model -> book_list                *)
(* followed by recommend_books calls.                                      *)
(*                                                                         *)
(* Tables are bags of rows (row |-> number of occurrences): none of the    *)
(* pandas operations used on the ratings table depends on row order.  The  *)
(* book catalog is a sequence, because recommend_books takes .iloc[0].     *)
(* Only the columns the pipeline reads are kept (User-ID, ISBN,            *)
(* Book-Rating, Book-Title); author, publisher, year and the HTML/CSS of   *)
(* a card are presentation and are left out.                               *)
(* Rating means and cosine distances are exact rationals; IEEE rounding    *)
(* of the float64 computation is not modelled.  Streamlit runs the script  *)
(* again on every interaction, with load_data, prepare_data and            *)
(* create_model served from st.cache_data: the globals keep the values of  *)
(* the first run, which is the run modelled.                               *)
(***************************************************************************)
EXTENDS Integers, Sequences, FiniteSets

VARIABLES
    books_csv,      \* Books.csv: sequence of [ISBN, Title]
    ratings_csv,    \* Ratings.csv: bag of [User, ISBN, Rating]
    argsort_ties,   \* how the sort of the numpy build orders equal distances
    pc,             \* position in the script
    books,          \* global books (line 16)
    ratings,        \* global ratings (lines 16 and 31)
    book_pivot,     \* global book_pivot (line 46)
    model,          \* global model (line 46)
    book_list,      \* options of the selectbox (line 219)
    selected_book,  \* value of the selectbox (line 220)
    called,         \* argument of the last recommend_books call
    message,        \* st.error text shown by the last call
    raised,         \* exception that ended the last call / the start-up
    cards,          \* cards rendered by the last call, in order
    lookups,        \* matrix row lookups done by the last call
    queries         \* kneighbors queries done by the last call

vars == <<books_csv, ratings_csv, argsort_ties, pc, books, ratings, book_pivot,
          model, book_list, selected_book, called, message, raised, cards,
          lookups, queries>>

-----------------------------------------------------------------------------
(* Program constants *)

TitleThreshold == 50
UserThreshold == 50
NNeighbors == 6

(* Bounds of the input files *)

MaxKinds == 3     \* distinct rows of a small ratings file
MaxWide == 7      \* titles of a wide ratings file

-----------------------------------------------------------------------------
(* Values *)

NaN == "<NaN>"
None == "<None>"
NotFoundMessage == "Book not found in database!"

\* Titles, listed in Python string order.
TitleUniverse ==
    <<"Alpha", "Beta", "Delta", "Epsilon", "Eta", "Gamma", "Iota", "Kappa", "Lambda">>
ISBNUniverse ==
    <<"0001", "0002", "0003", "0004", "0005", "0006", "0007", "0008", "0009">>
EditionISBN == "0001X"      \* a second ISBN of TitleUniverse[1]
UnlistedISBN == "9999"      \* an ISBN that Books.csv does not hold

Range(s) == {s[i] : i \in DOMAIN s}

TitlePos(t) == CHOOSE i \in DOMAIN TitleUniverse : TitleUniverse[i] = t
\* str.__lt__ on the titles of the universe
TitleLess(a, b) == TitlePos(a) < TitlePos(b)

RECURSIVE GCD(_, _)
GCD(a, b) == IF b = 0 THEN a ELSE GCD(b, a % b)
LCM(a, b) == (a * b) \div GCD(a, b)

RECURSIVE SumOver(_, _)
\* Sum of f[x] over the finite set S.
SumOver(f, S) ==
    IF S = {} THEN 0
    ELSE LET x == CHOOSE y \in S : TRUE IN f[x] + SumOver(f, S \ {x})

\* Number of rows of the bag `table` that satisfy the row set S.
RowCount(table, S) == SumOver(table, S \cap DOMAIN table)

\* table[mask]: the rows of the bag in S, with their multiplicities.
Restrict(table, S) == [r \in (DOMAIN table) \cap S |-> table[r]]

\* The titles of the set S in increasing string order.
SortedTitles(S) ==
    [i \in 1..Cardinality(S) |->
        CHOOSE x \in S : Cardinality({y \in S : TitleLess(y, x)}) = i - 1]

\* The numbers of the set S in increasing order.
SortedNumbers(S) ==
    [i \in 1..Cardinality(S) |->
        CHOOSE x \in S : Cardinality({y \in S : y < x}) = i - 1]

-----------------------------------------------------------------------------
(* load_data: ratings.merge(books[...], on="ISBN", how="left") *)

\* The catalog rows whose ISBN is isbn.
BookMatches(bcsv, isbn) == {i \in DOMAIN bcsv : bcsv[i].ISBN = isbn}

\* The rows a rating row k joins to: one per matching catalog row, and one
\* with a null title when no catalog row matches.
JoinedRows(bcsv, k) ==
    IF BookMatches(bcsv, k.ISBN) = {}
    THEN {[User |-> k.User, ISBN |-> k.ISBN, Rating |-> k.Rating, Title |-> NaN]}
    ELSE {[User |-> k.User, ISBN |-> k.ISBN, Rating |-> k.Rating,
           Title |-> bcsv[i].Title] : i \in BookMatches(bcsv, k.ISBN)}

Merge(bcsv, rcsv) ==
    [row \in UNION {JoinedRows(bcsv, k) : k \in DOMAIN rcsv} |->
        LET k == [User |-> row.User, ISBN |-> row.ISBN, Rating |-> row.Rating]
            same == {i \in BookMatches(bcsv, row.ISBN) : bcsv[i].Title = row.Title}
        IN  rcsv[k] * (IF same = {} THEN 1 ELSE Cardinality(same))]

LoadData(bcsv, rcsv) == [books |-> bcsv, ratings |-> Merge(bcsv, rcsv)]

-----------------------------------------------------------------------------
(* prepare_data *)

TitleRows(table, t) == {r \in DOMAIN table : r.Title = t}
UserRows(table, u) == {r \in DOMAIN table : r.User = u}

\* ratings['Book-Title'].value_counts() with dropna=False: the null title is
\* counted like any other value.
TitleCountsKeepNa(table) ==
    [t \in {r.Title : r \in DOMAIN table} |-> RowCount(table, TitleRows(table, t))]

\* ratings['Book-Title'].value_counts(): rows per title, null titles dropped.
TitleCounts(table) ==
    [t \in {r.Title : r \in DOMAIN table} \ {NaN} |->
        RowCount(table, TitleRows(table, t))]

\* filtered_ratings['User-ID'].value_counts(): rows per user.
UserCounts(table) ==
    [u \in {r.User : r \in DOMAIN table} |-> RowCount(table, UserRows(table, u))]

\* counts[counts > 50].index
Above(counts, threshold) == {v \in DOMAIN counts : counts[v] > threshold}

\* Both thresholds taken over the input table (no second pass).
PrepareDataIndependent(table) ==
    Restrict(table,
        {r \in DOMAIN table :
            /\ r.Title \in Above(TitleCounts(table), TitleThreshold)
            /\ r.User \in Above(UserCounts(table), UserThreshold)})

\* Thresholds on the number of distinct users of a title and of distinct
\* titles of a user (nunique) instead of on the number of rows.
PrepareDataDistinct(table) ==
    LET popular == {t \in DOMAIN TitleCounts(table) :
                       Cardinality({r.User : r \in TitleRows(table, t)}) > TitleThreshold}
        first == Restrict(table, {r \in DOMAIN table : r.Title \in popular})
        active == {u \in DOMAIN UserCounts(first) :
                       Cardinality({r.Title : r \in UserRows(first, u)}) > UserThreshold}
    IN  Restrict(first, {r \in DOMAIN first : r.User \in active})

PrepareData(table) ==
    LET popular_books == Above(TitleCounts(table), TitleThreshold)
        filtered_ratings ==
            Restrict(table, {r \in DOMAIN table : r.Title \in popular_books})
        active_users == Above(UserCounts(filtered_ratings), UserThreshold)
    IN  Restrict(filtered_ratings,
                 {r \in DOMAIN filtered_ratings : r.User \in active_users})

-----------------------------------------------------------------------------
(* create_model *)

\* A matrix cell is the exact rational num/den in lowest terms.
Rational(num, den) ==
    LET g == GCD(num, den) IN [num |-> num \div g, den |-> den \div g]
Zero == [num |-> 0, den |-> 1]
Whole(n) == [num |-> n, den |-> 1]

\* The rows of the table of title t and user u: one group of the pivot.
GroupRows(table, t, u) == {r \in DOMAIN table : r.Title = t /\ r.User = u}

\* aggfunc='max': the largest rating of the group.
AggregateMax(table, S) ==
    Whole(CHOOSE v \in {r.Rating : r \in S} : \A r \in S : r.Rating <= v)

\* pivot_table's default aggfunc='mean' over the rows S of one group.
Aggregate(table, S) ==
    Rational(SumOver([r \in S |-> r.Rating * table[r]], S), RowCount(table, S))

PivotIndex(table) == SortedTitles({r.Title : r \in DOMAIN table} \ {NaN})
PivotColumns(table) == SortedNumbers({r.User : r \in DOMAIN table})

\* ratings.pivot_table(index='Book-Title', columns='User-ID',
\*                     values='Book-Rating').fillna(0)
PivotValues(table, index, columns) ==
    [i \in DOMAIN index |->
        [j \in DOMAIN columns |->
            IF GroupRows(table, index[i], columns[j]) = {}
            THEN Zero
            ELSE Aggregate(table, GroupRows(table, index[i], columns[j]))]]

PivotTable(table) ==
    CHOOSE p \in {[index |-> index, columns |-> columns,
                   values |-> PivotValues(table, index, columns)] :
                    index \in {PivotIndex(table)},
                    columns \in {PivotColumns(table)}} : TRUE

\* NearestNeighbors.fit validates its input: an array without a row is
\* rejected with ValueError.
FitRaises(X) == Len(X) = 0

\* model.fit(csr_matrix(book_pivot.values))
Fit(X) == [fit_X |-> X, n_samples_fit |-> Len(X)]

-----------------------------------------------------------------------------
(* NearestNeighbors(algorithm='brute', metric='cosine').kneighbors *)

RECURSIVE LCMOver(_, _)
LCMOver(row, J) ==
    IF J = {} THEN 1
    ELSE LET j == CHOOSE x \in J : TRUE
         IN LCM(row[j].den, LCMOver(row, J \ {j}))

RECURSIVE GCDOver(_, _)
GCDOver(v, J) ==
    IF J = {} THEN 0
    ELSE LET j == CHOOSE x \in J : TRUE IN GCD(v[j], GCDOver(v, J \ {j}))

\* The integer vector of smallest entries with the direction of the row
\* (cosine is invariant under positive scaling); the zero row stays zero.
Direction(row) ==
    LET l == LCMOver(row, DOMAIN row)
        v == [j \in DOMAIN row |-> row[j].num * (l \div row[j].den)]
        g == GCDOver(v, DOMAIN v)
    IN  IF g = 0 THEN v ELSE [j \in DOMAIN v |-> v[j] \div g]

Dot(x, y) == SumOver([j \in DOMAIN x |-> x[j] * y[j]], DOMAIN x)
IsZeroRow(row) == \A j \in DOMAIN row : row[j].num = 0

\* The square of the cosine similarity of q and x as the fraction num/den,
\* with the common factor 1/|q|^2 left out: (q.x)^2 / |x|^2.  A zero vector
\* has similarity 0 to everything (normalize leaves it zero).  Ratings are
\* never negative, so similarities order as their squares do.
Similarity(q, x) ==
    LET dq == Direction(q)
        dx == Direction(x)
    IN  [num |-> Dot(dq, dx) * Dot(dq, dx),
         den |-> IF IsZeroRow(x) THEN 1 ELSE Dot(dx, dx)]

\* cosine distance of q and x is 0: both non-zero and parallel.
DistanceZero(q, x) ==
    /\ ~IsZeroRow(q)
    /\ ~IsZeroRow(x)
    /\ Similarity(q, x).num = Similarity(q, q).den * Similarity(q, x).den

\* The cosine distances 1 - similarity of the query to every fitted row, as
\* the similarities they are computed from.
Distances(m, q) == [a \in 1..m.n_samples_fit |-> Similarity(q, m.fit_X[a])]

\* Row a comes before row b in the result: smaller distance (larger
\* similarity) first; rows at equal distance in the order the sort of the
\* build leaves them.
Before(dist, ties, a, b) ==
    \/ dist[a].num * dist[b].den > dist[b].num * dist[a].den
    \/ /\ dist[a].num * dist[b].den = dist[b].num * dist[a].den
       /\ IF ties = "low" THEN a < b ELSE a > b

\* The first k rows in the order Before, given the distances.
Nearest(dist, k, ties) ==
    [i \in 1..k |->
        CHOOSE a \in DOMAIN dist :
            Cardinality({b \in DOMAIN dist : Before(dist, ties, b, a)}) = i - 1]

\* The farthest rows first.
KNeighborsFarthest(m, q, k, ties) ==
    CHOOSE s \in {[i \in 1..k |-> Nearest(dist, Len(dist), ties)[Len(dist) + 1 - i]] :
                    dist \in {Distances(m, q)}} : TRUE

\* n_neighbors may not exceed the number of fitted rows: ValueError.
KNeighborsRaises(m, k) == k > m.n_samples_fit

\* suggestions[0] of model.kneighbors(query_vector, n_neighbors=k): the row
\* numbers (from 1) of the k nearest fitted rows, nearest first.
\* (The singleton set binds the distances, so that they are computed once.)
KNeighbors(m, q, k, ties) ==
    CHOOSE s \in {Nearest(dist, k, ties) : dist \in {Distances(m, q)}} : TRUE

-----------------------------------------------------------------------------
(* recommend_books *)

\* books[books['Book-Title'] == title]: the catalog rows of the title, in
\* catalog order.
CatalogRows(bks, title) == SelectSeq(bks, LAMBDA b : b.Title = title)

\* display_book_card, reduced to what identifies the card.
Card(bks, title, tag) ==
    [title |-> title, isbn |-> CatalogRows(bks, title)[1].ISBN, tag |-> tag]

\* The titles recommend_books renders, in order: the selection, then
\* suggestions[0][1:] (the first suggestion is skipped).  Rows are numbered
\* from 1 here, from 0 in numpy.
RenderedTitles(pivot, book_name, suggestions) ==
    <<book_name>> \o [i \in 1..(Len(suggestions) - 1) |-> pivot.index[suggestions[i + 1]]]

RenderedTags(suggestions) ==
    <<"Your Selection">> \o [i \in 1..(Len(suggestions) - 1) |-> "Recommended"]

\* .iloc[0] of an empty selection raises IndexError: the cards before the
\* first title without a catalog row are on the page, the rest is not.
CardsUntilMissing(bks, titles, tags) ==
    LET missing == {i \in DOMAIN titles : Len(CatalogRows(bks, titles[i])) = 0}
        stop == IF missing = {} THEN Len(titles) + 1
                ELSE CHOOSE i \in missing : \A j \in missing : i <= j
    IN  [cards |-> [i \in 1..(stop - 1) |-> Card(bks, titles[i], tags[i])],
         raised |-> IF missing = {} THEN None ELSE "IndexError"]

\* recommend_books without the membership test of lines 182-184: for a title
\* outside the index, np.where(...)[0][0] raises IndexError.
RecommendationUnguarded(bks, pivot, m, ties, book_name) ==
    [message |-> None, raised |-> "IndexError", cards |-> <<>>,
     lookups |-> 1, queries |-> 0]

\* What one call recommend_books(book_name) leaves on the page.
Recommendation(bks, pivot, m, ties, book_name) ==
    IF book_name \notin Range(pivot.index)
    THEN [message |-> NotFoundMessage, raised |-> None, cards |-> <<>>,
          lookups |-> 0, queries |-> 0]
    ELSE LET book_id == CHOOSE i \in DOMAIN pivot.index : pivot.index[i] = book_name
             query_vector == pivot.values[book_id]
         IN  IF KNeighborsRaises(m, NNeighbors)
             THEN [message |-> None, raised |-> "ValueError", cards |-> <<>>,
                   lookups |-> 1, queries |-> 1]
             ELSE CHOOSE out \in
                     {[message |-> None, raised |-> page.raised, cards |-> page.cards,
                       lookups |-> 1, queries |-> 1] :
                        page \in {CardsUntilMissing(bks,
                                     RenderedTitles(pivot, book_name, suggestions),
                                     RenderedTags(suggestions)) :
                                  suggestions \in
                                     {KNeighbors(m, query_vector, NNeighbors, ties)}}} :
                     TRUE

-----------------------------------------------------------------------------
(* Input files *)

Catalog ==
    [k \in DOMAIN ISBNUniverse |-> [ISBN |-> ISBNUniverse[k], Title |-> TitleUniverse[k]]]
    \o <<[ISBN |-> EditionISBN, Title |-> TitleUniverse[1]]>>

\* The same catalog with the title of the second book missing.
CatalogMissingTitle ==
    [Catalog EXCEPT ![2] = [ISBN |-> ISBNUniverse[2], Title |-> NaN]]

\* The same catalog with the first book listed twice.
CatalogDuplicate ==
    Catalog \o <<[ISBN |-> ISBNUniverse[1], Title |-> TitleUniverse[1]]>>

Catalogs == {Catalog, CatalogMissingTitle, CatalogDuplicate}

Users == {1, 2}
CopyCounts == {26, 51}      \* every row of a file occurs this many times

\* Small files: at most MaxKinds distinct rows over two listed books, a second
\* edition of the first and an unlisted ISBN.  The thresholds count rows, so
\* a file reaches them with 26 or 51 occurrences of each of its rows.
SmallKinds ==
    [User : Users,
     ISBN : {ISBNUniverse[1], ISBNUniverse[2], EditionISBN, UnlistedISBN},
     Rating : {0, 10}]

RECURSIVE SubsetsUpTo(_, _)
\* The subsets of S with at most n elements.
SubsetsUpTo(S, n) ==
    IF n = 0 THEN {{}}
    ELSE SubsetsUpTo(S, n - 1) \cup
         {T \cup {x} : T \in SubsetsUpTo(S, n - 1), x \in S}

\* A user gives an ISBN one rating.
OneRatingEach(S) ==
    \A k1, k2 \in S : (k1.User = k2.User /\ k1.ISBN = k2.ISBN) => k1 = k2

SmallTables ==
    {[k \in S |-> c] :
        S \in {T \in SubsetsUpTo(SmallKinds, MaxKinds) : OneRatingEach(T)},
        c \in CopyCounts}

\* Wide files: both users rate each of the first n books; the ratings of
\* book k are <<k, 1>>, except that book j gets s times the ratings of book i.
WideVector(k, j, i, s) == IF k = j THEN <<s * i, s>> ELSE <<k, 1>>

WideTables ==
    {[r \in {[User |-> u, ISBN |-> ISBNUniverse[k],
              Rating |-> WideVector(k, j, i, s)[u]] : u \in Users, k \in 1..n} |-> c] :
        n \in (NNeighbors - 1)..MaxWide,
        j \in 1..3,
        i \in 1..3,
        s \in 0..2,
        c \in CopyCounts}

\* Titles recommend_books is called with from outside the selectbox.
UnlistedTitles == {TitleUniverse[1], TitleUniverse[2], "Nonexistent Book XYZ"}

-----------------------------------------------------------------------------
(* The script *)

EmptyPivot == [index |-> <<>>, columns |-> <<>>, values |-> <<>>]

Init ==
    /\ books_csv \in Catalogs
    /\ ratings_csv \in SmallTables \cup WideTables
    /\ argsort_ties = None
    /\ pc = "start"
    /\ books = <<>>
    /\ ratings = <<>>
    /\ book_pivot = EmptyPivot
    /\ model = Fit(<<>>)
    /\ book_list = <<>>
    /\ selected_book = None
    /\ called = None
    /\ message = None
    /\ raised = None
    /\ cards = <<>>
    /\ lookups = 0
    /\ queries = 0

\* line 16: books, ratings = load_data()
LoadDataStep ==
    /\ pc = "start"
    /\ books' = LoadData(books_csv, ratings_csv).books
    /\ ratings' = LoadData(books_csv, ratings_csv).ratings
    /\ pc' = "loaded"
    /\ UNCHANGED <<books_csv, ratings_csv, argsort_ties, book_pivot, model,
                   book_list, selected_book, called, message, raised, cards,
                   lookups, queries>>

\* line 31: ratings = prepare_data(ratings)
PrepareDataStep ==
    /\ pc = "loaded"
    /\ ratings' = PrepareData(ratings)
    /\ pc' = "prepared"
    /\ UNCHANGED <<books_csv, ratings_csv, argsort_ties, books, book_pivot, model,
                   book_list, selected_book, called, message, raised, cards,
                   lookups, queries>>

\* line 46: book_pivot, model = create_model(ratings).  When fit raises, the
\* exception ends the script and the globals are never assigned.  The order
\* numpy leaves equal distances in is not specified; it is one of the two
\* orders for the life of the process, fixed here, where the index is built.
CreateModelStep ==
    /\ pc = "prepared"
    /\ \E pivot \in {PivotTable(ratings)} :
           IF FitRaises(pivot.values)
           THEN /\ raised' = "ValueError"
                /\ pc' = "crashed"
                /\ UNCHANGED <<book_pivot, model, argsort_ties>>
           ELSE /\ book_pivot' = pivot
                /\ model' = Fit(pivot.values)
                /\ argsort_ties' \in {"low", "high"}
                /\ pc' = "fitted"
                /\ UNCHANGED raised
    /\ UNCHANGED <<books_csv, ratings_csv, books, ratings,
                   book_list, selected_book, called, message, cards,
                   lookups, queries>>

\* sorted(list(book_pivot.index)) in reverse.
BookListReversed(pivot) ==
    [i \in DOMAIN pivot.index |-> pivot.index[Len(pivot.index) + 1 - i]]

\* line 219: sorted(list(book_pivot.index))
BookList(pivot) == SortedTitles(Range(pivot.index))

\* lines 219-220: the selectbox is built; its value is its first option.
MainUI ==
    /\ pc = "fitted"
    /\ book_list' = BookList(book_pivot)
    /\ selected_book' = IF Len(BookList(book_pivot)) = 0 THEN None
                        ELSE BookList(book_pivot)[1]
    /\ pc' = "ready"
    /\ UNCHANGED <<books_csv, ratings_csv, argsort_ties, books, ratings,
                   book_pivot, model, called, message, raised, cards,
                   lookups, queries>>

\* A call that also drops the queried row from the matrix and refits.
RecommendBooksDropping(book_name) ==
    \E out \in {Recommendation(books, book_pivot, model, argsort_ties, book_name)},
       kept \in {SortedNumbers({i \in DOMAIN book_pivot.index :
                                  book_pivot.index[i] # book_name})} :
        /\ called' = book_name
        /\ message' = out.message
        /\ raised' = out.raised
        /\ cards' = out.cards
        /\ lookups' = out.lookups
        /\ queries' = out.queries
        /\ book_pivot' = [book_pivot EXCEPT
                            !.index = [i \in DOMAIN kept |-> book_pivot.index[kept[i]]],
                            !.values = [i \in DOMAIN kept |-> book_pivot.values[kept[i]]]]
        /\ model' = Fit([i \in DOMAIN kept |-> book_pivot.values[kept[i]]])
        /\ UNCHANGED <<books_csv, ratings_csv, argsort_ties, pc, books, ratings,
                       book_list>>

\* lines 181-213: one call of recommend_books; the page shows its output only.
RecommendBooks(book_name) ==
    \E out \in {Recommendation(books, book_pivot, model, argsort_ties, book_name)} :
        /\ called' = book_name
        /\ message' = out.message
        /\ raised' = out.raised
        /\ cards' = out.cards
        /\ lookups' = out.lookups
        /\ queries' = out.queries
        /\ UNCHANGED <<books_csv, ratings_csv, argsort_ties, pc, books, ratings,
                       book_pivot, model, book_list>>

\* lines 220-224: a title is chosen in the selectbox and the button pressed.
GetRecommendations ==
    /\ pc = "ready"
    /\ \E b \in Range(book_list) :
          /\ selected_book' = b
          /\ RecommendBooks(b)

\* recommend_books called with a title the selectbox does not offer.
RecommendUnlisted ==
    /\ pc = "ready"
    /\ \E b \in UnlistedTitles \ Range(book_list) :
          /\ UNCHANGED selected_book
          /\ RecommendBooks(b)

Next ==
    \/ LoadDataStep
    \/ PrepareDataStep
    \/ CreateModelStep
    \/ MainUI
    \/ GetRecommendations
    \/ RecommendUnlisted

Spec == Init /\ [][Next]_vars

-----------------------------------------------------------------------------
(* Properties *)

\* The table prepare_data is given: the merged ratings of load_data.
Input == Merge(books_csv, ratings_csv)

\* The rows of the input whose title occurs in more than 50 rows of it.
TitleFiltered(input) ==
    Restrict(input,
        {r \in DOMAIN input :
            /\ r.Title # NaN
            /\ RowCount(input, TitleRows(input, r.Title)) > TitleThreshold})

Started == pc \in {"fitted", "ready"}

\* C1: every row prepare_data returns is a row of the input, as often as
\* there, whose title occurs in more than 50 rows of the input and whose
\* user occurs in more than 50 rows of the title-filtered subset; and every
\* row of that subset whose user does so is returned.
C1_TwoPassFilter ==
    pc = "prepared" =>
        \A input \in {Input} : \A subset \in {TitleFiltered(input)} :
            /\ \A r \in DOMAIN ratings :
                  /\ r \in DOMAIN input
                  /\ ratings[r] = input[r]
                  /\ r.Title # NaN
                  /\ RowCount(input, TitleRows(input, r.Title)) > 50
                  /\ RowCount(subset, UserRows(subset, r.User)) > 50
            /\ \A r \in DOMAIN subset :
                  RowCount(subset, UserRows(subset, r.User)) > 50
                      => r \in DOMAIN ratings

\* C1 witness: prepare_data returned rows, and dropped a row of the
\* title-filtered subset whose user has more than 50 rows in the input but
\* not in the subset.
C1_Witness ==
    /\ pc = "prepared"
    /\ DOMAIN ratings # {}
    /\ \E r \in DOMAIN TitleFiltered(Input) :
          /\ RowCount(Input, UserRows(Input, r.User)) > 50
          /\ RowCount(TitleFiltered(Input), UserRows(TitleFiltered(Input), r.User)) <= 50
          /\ r \notin DOMAIN ratings

\* C8 as stated: every title that survives prepare_data was rated by more
\* than 50 distinct users, and every surviving user rated more than 50
\* distinct titles.
C8_DistinctCounts ==
    pc = "prepared" =>
        \A r \in DOMAIN ratings :
            /\ Cardinality({x.User : x \in TitleRows(Input, r.Title)}) > 50
            /\ Cardinality({x.Title : x \in UserRows(Input, r.User)} \ {NaN}) > 50

\* C8 amended: the surviving titles are the titles with more than 50 rows in
\* the input that have a row of a user with more than 50 rows in the
\* title-filtered subset, and the surviving users are the users with more
\* than 50 rows in that subset: the number of rows decides, not the number of
\* distinct users or titles.
C8_RowCountsDecide ==
    pc = "prepared" =>
        \A subset \in {TitleFiltered(Input)} :
            /\ {r.Title : r \in DOMAIN ratings} =
                  {r.Title : r \in {x \in DOMAIN subset :
                        RowCount(subset, UserRows(subset, x.User)) > 50}}
            /\ {r.User : r \in DOMAIN ratings} =
                  {u \in {x.User : x \in DOMAIN subset} :
                        RowCount(subset, UserRows(subset, u)) > 50}

\* C8 witness: a title survived all of whose rows come from one user, who
\* rated one title.
C8_Witness ==
    /\ pc = "prepared"
    /\ \E r \in DOMAIN ratings :
          /\ Cardinality({x.User : x \in TitleRows(Input, r.Title)}) = 1
          /\ Cardinality({x.Title : x \in UserRows(ratings, r.User)}) = 1

\* The matrix has one row per distinct title and one column per distinct
\* user of the filtered set.
PivotShape ==
    /\ Len(book_pivot.index) = Cardinality({r.Title : r \in DOMAIN ratings})
    /\ Range(book_pivot.index) = {r.Title : r \in DOMAIN ratings}
    /\ Len(book_pivot.columns) = Cardinality({r.User : r \in DOMAIN ratings})
    /\ Range(book_pivot.columns) = {r.User : r \in DOMAIN ratings}
    /\ Len(book_pivot.values) = Len(book_pivot.index)
    /\ \A i \in DOMAIN book_pivot.values :
          Len(book_pivot.values[i]) = Len(book_pivot.columns)

\* C2 as stated: the matrix has that shape, the cell of every (title, user)
\* pair with a rating in the filtered set is that rating, every other cell is 0.
C2_GivenValue ==
    pc = "fitted" =>
        /\ PivotShape
        /\ \A i \in DOMAIN book_pivot.index, j \in DOMAIN book_pivot.columns :
              \A rows \in {GroupRows(ratings, book_pivot.index[i], book_pivot.columns[j])} :
                  /\ rows = {} => book_pivot.values[i][j] = Zero
                  /\ \A r \in rows : book_pivot.values[i][j] = Whole(r.Rating)

\* C2 amended: the matrix has that shape; the cell of a (title, user) pair
\* with ratings in the filtered set is the arithmetic mean of the ratings of
\* all its rows, which is the given rating when they all carry the same one;
\* every other cell is 0.
C2_MeanValue ==
    pc = "fitted" =>
        /\ PivotShape
        /\ \A i \in DOMAIN book_pivot.index, j \in DOMAIN book_pivot.columns :
              \A rows \in {GroupRows(ratings, book_pivot.index[i], book_pivot.columns[j])} :
                  \A cell \in {book_pivot.values[i][j]} :
                      /\ rows = {} => cell = Zero
                      /\ rows # {} =>
                            /\ cell.den > 0
                            /\ GCD(cell.num, cell.den) = 1
                            /\ cell.num * RowCount(ratings, rows) =
                                  cell.den * SumOver([r \in rows |-> r.Rating * ratings[r]], rows)
                      /\ \A v \in {r.Rating : r \in rows} :
                            {r.Rating : r \in rows} = {v} => cell = Whole(v)

\* C2 witness: the matrix is built and a user has two different ratings for
\* one title (two ISBNs of it).
C2_Witness ==
    /\ pc = "fitted"
    /\ \E i \in DOMAIN book_pivot.index, j \in DOMAIN book_pivot.columns :
          \E r1, r2 \in GroupRows(ratings, book_pivot.index[i], book_pivot.columns[j]) :
              r1.Rating # r2.Rating /\ r1.ISBN # r2.ISBN

\* C3 as stated: a call with a title of the index renders the card of the
\* selection and then exactly 5 recommendation cards, none of them of the
\* selected title.
C3_FiveOtherBooks ==
    (pc = "ready" /\ called \in Range(book_pivot.index)) =>
        /\ raised = None
        /\ Len(cards) = NNeighbors
        /\ cards[1].title = called
        /\ cards[1].tag = "Your Selection"
        /\ \A i \in 2..Len(cards) :
              cards[i].tag = "Recommended" /\ cards[i].title # called

\* C4: a call with a title outside the index shows the 'not found' message,
\* raises nothing, looks up no matrix row, queries no neighbours and renders
\* no card.
C4_NotFound ==
    (pc = "ready" /\ called # None /\ called \notin Range(book_pivot.index)) =>
        /\ message = NotFoundMessage
        /\ raised = None
        /\ lookups = 0
        /\ queries = 0
        /\ cards = <<>>

\* C4 witness: recommend_books was called with a title that was never in the
\* ratings file, and with one whose ratings were all filtered out.
C4_Witness ==
    /\ pc = "ready"
    /\ called \in {"Nonexistent Book XYZ"} \cup {r.Title : r \in DOMAIN Input}
    /\ called \notin Range(book_pivot.index)
    /\ message = NotFoundMessage

\* C5: the title list of the selectbox is the strictly increasing list of the
\* titles that have a row in the filtered rating set.
C5_TitleList ==
    pc = "ready" =>
        /\ Range(book_list) = {r.Title : r \in DOMAIN ratings}
        /\ \A i, j \in DOMAIN book_list :
              i < j => TitleLess(book_list[i], book_list[j])

\* C5 witness: the list offers a title, and a title of the input
\* whose ratings were all filtered out is not among them.
C5_Witness ==
    /\ pc = "ready"
    /\ Len(book_list) >= 1
    /\ \E r \in DOMAIN Input : r.Title # NaN /\ r.Title \notin Range(book_list)

\* C6 as stated: when prepare_data returns no row, start-up goes on without
\* an error.
C6_EmptyTolerated ==
    (DOMAIN ratings = {} /\ pc \notin {"start", "loaded"}) =>
        /\ pc # "crashed"
        /\ raised = None

\* C7: once the UI is up, no step changes the book catalog, the rating
\* matrix (values, row order, column order) or the fitted index, nor the
\* order in which equal distances are returned.
C7_Frame ==
    [][pc = "ready" =>
          /\ books' = books
          /\ book_pivot' = book_pivot
          /\ model' = model
          /\ argsort_ties' = argsort_ties
          /\ model'.fit_X = book_pivot'.values]_vars

\* C7 witness: a call with a title of the index has rendered its cards.
C7_Witness ==
    /\ pc = "ready"
    /\ called \in Range(book_pivot.index)
    /\ Len(cards) = NNeighbors

\* Another fitted row is parallel to row i.
HasParallelRow(i) ==
    \E j \in DOMAIN model.fit_X :
        j # i /\ DistanceZero(model.fit_X[i], model.fit_X[j])

\* C9 as stated: a query with a non-zero row's own vector and k = number of
\* rows returns that row first.
C9_SelfFirst ==
    pc = "fitted" =>
        \A i \in DOMAIN model.fit_X :
            ~IsZeroRow(model.fit_X[i]) =>
                KNeighbors(model, model.fit_X[i], model.n_samples_fit, argsort_ties)[1] = i

\* C9 amended: such a query returns every row once, the row itself among
\* them, and first a row at cosine distance 0, which is the row itself
\* unless another row is parallel to it.
C9_ParallelFirst ==
    pc = "fitted" =>
        \A i \in DOMAIN model.fit_X :
            ~IsZeroRow(model.fit_X[i]) =>
                \A res \in {KNeighbors(model, model.fit_X[i], model.n_samples_fit,
                                       argsort_ties)} :
                    /\ Range(res) = DOMAIN model.fit_X
                    /\ Len(res) = model.n_samples_fit
                    /\ DistanceZero(model.fit_X[i], model.fit_X[res[1]])
                    /\ ~HasParallelRow(i) => res[1] = i

\* C9 witness: the query of a non-zero row returns another, parallel row
\* first, among at least 6 rows.
C9_Witness ==
    /\ pc = "fitted"
    /\ model.n_samples_fit >= NNeighbors
    /\ \E i \in DOMAIN model.fit_X :
          /\ ~IsZeroRow(model.fit_X[i])
          /\ KNeighbors(model, model.fit_X[i], model.n_samples_fit, argsort_ties)[1] # i

\* C10: no row with a null title survives prepare_data; the matrix has no
\* null row label, every row label is a title of the catalog, every column is
\* a user with a titled rating, and no catalog lookup of recommend_books
\* comes back empty.
C10_NoNullTitle ==
    /\ pc \in {"prepared", "fitted", "ready", "crashed"} =>
          \A r \in DOMAIN ratings : r.Title # NaN
    /\ Started =>
          /\ NaN \notin Range(book_pivot.index)
          /\ \A i \in DOMAIN book_pivot.index :
                Len(CatalogRows(books, book_pivot.index[i])) > 0
          /\ \A j \in DOMAIN book_pivot.columns :
                \E r \in DOMAIN ratings :
                    r.User = book_pivot.columns[j] /\ r.Title # NaN
    /\ raised # "IndexError"

\* C10 witness: the matrix is built although more than 50 rows of the input
\* are ratings of an ISBN without a book record, their title null.
C10_Witness ==
    /\ pc = "fitted"
    /\ RowCount(Input, {r \in DOMAIN Input : r.ISBN = UnlistedISBN}) > 50
    /\ \A r \in DOMAIN Input : r.ISBN = UnlistedISBN => r.Title = NaN

====
